---- MODULE Spec2Model ----
(***************************************************************************)
(* A model of vish-pr/coder:                                               *)
(*   - LLM.py   : ChatRequestHandler.do_POST / LLMs.completion             *)
(*   - agent.py : main() dispatch, Agent.read_file / write_file /          *)
(*                run_command / edit_code_file                             *)
(* Three specifications share the module; each one runs one component and  *)
(* leaves the variables of the others at their initial values.             *)
(*   SpecPost  : one POST request through do_POST                          *)
(*   SpecAgent : one run of main() with one subcommand                     *)
(*   SpecEdit  : one call of Agent.edit_code_file                          *)
(***************************************************************************)
EXTENDS Integers, Sequences, FiniteSets, TLC

VARIABLES
  \* ---- LLM.py, one request handled by ChatRequestHandler.do_POST
  hpc,              \* position in do_POST
  post_data,        \* the request's JSON payload (as received)
  bodyRead,         \* self.rfile.read(content_length) has been done
  messages,         \* the local `messages` list of do_POST
  llmCalls,         \* argument of every llm.completion call made so far
  response_data,    \* value returned by llm.completion
  completion_id,    \* f"chatcmpl-{int(time.time())}"
  headers_buffer,   \* BaseHTTPRequestHandler._headers_buffer
  wire,             \* everything written to self.wfile, in order
  close_connection, \* BaseHTTPRequestHandler.close_connection
  clock,            \* int(time.time())
  \* ---- agent.py, one run of main()
  apc,              \* position in main() and in the Agent method it calls
  args,             \* the parsed command line
  linesep,          \* os.linesep of the platform
  fs,               \* the file system: path -> bytes of the file, or NoFile
  fs0,              \* the file system when main() started
  result,           \* the dictionary the Agent method returned
  methodCalls,      \* Agent methods main() has invoked, in order
  osCalls,          \* external library / OS calls made, in order
  printed,          \* what main() printed, in order
  proc,             \* the child process of run_command
  failed,           \* an external call made by the method has failed
  raised,           \* an exception has left the Agent method
  \* ---- agent.py, one call of Agent.edit_code_file
  epc,              \* position in edit_code_file
  efile,            \* the code file: its lines, and whether it ends in "\n"
  edits,            \* the `edits` argument
  elines,           \* the local `lines`
  todo,             \* the part of sorted_edits the loop has still to apply
  eresult           \* the dictionary edit_code_file returned

hvars == <<hpc, post_data, bodyRead, messages, llmCalls, response_data,
           completion_id, headers_buffer, wire, close_connection, clock>>

avars == <<apc, args, linesep, fs, fs0, result, methodCalls, osCalls, printed,
           proc, failed, raised>>

evars == <<epc, efile, edits, elines, todo, eresult>>

\* ------------------------------------------------------------------ bounds
MaxLines == 2
MaxEdits == 2
MaxMsgs == 2
MaxClock == 2
MaxContent == 2

\* ---------------------------------------------------------------- LLM.py

ROLES_SYSTEM == "system"
ROLES_USER == "user"
ROLES_ASSISTANT == "assistant"

Roles == {ROLES_SYSTEM, ROLES_USER, ROLES_ASSISTANT}

\* JSON values of the optional payload fields, named by their JSON text.
\* "absent" is a missing key (dict.get gives None, or the given default).
StreamVals == {"absent", "false", "true", "0", "1"}
SystemVals == {"absent", "", "S"}

\* Python truthiness of such a value (`if post_data.get("system")`, `if stream`).
Truthy(v) == v \notin {"absent", "null", "false", "0", ""}

Message(r, c) == [role |-> r, content |-> c]

SeqsUpTo(S, n) == UNION {[1..k -> S] : k \in 0..n}

MessageLists == SeqsUpTo({Message(r, "c") : r \in Roles}, MaxMsgs)

\* A payload json.loads accepts. has_messages = FALSE: no "messages" key.
Payloads ==
  [valid : {TRUE}, has_messages : {TRUE}, messages : MessageLists,
   system : SystemVals, stream : StreamVals]
  \cup
  [valid : {TRUE}, has_messages : {FALSE}, messages : {<<>>},
   system : SystemVals, stream : {"absent", "true"}]

\* A body json.loads rejects (for one, the empty body of a request without
\* Content-Length).
InvalidBody ==
  [valid |-> FALSE, has_messages |-> FALSE, messages |-> <<>>,
   system |-> "absent", stream |-> "absent"]

NoResponse == "none"
Responses == {"r1", "r2"}

\* list.insert(0, x)
Insert0(list, x) == <<x>> \o list

\* The system message put at the end of the list (list.append) instead.
WithSystemAppended(pd) ==
  IF Truthy(pd.system)
    THEN Append(pd.messages, Message(ROLES_SYSTEM, pd.system))
    ELSE pd.messages

\* Lines 59-61: the list handed on after the optional system message is put in.
WithSystem(pd) ==
  IF Truthy(pd.system)
    THEN Insert0(pd.messages, Message(ROLES_SYSTEM, pd.system))
    ELSE pd.messages

\* Lines 57-63 complete without an exception.
RequestAccepted(pd) ==
  /\ pd.valid
  /\ pd.has_messages
  /\ WithSystem(pd) # <<>>
  /\ WithSystem(pd)[1].role = ROLES_SYSTEM

\* What is written to wfile: a flushed header block, or one JSON document
\* (as a server-sent event "data: ...\n\n", or bare).
HeaderBlock(buf) ==
  [kind |-> "headers", lines |-> buf, id |-> -1, object |-> "", created |-> -1,
   carrier |-> "", role |-> "", content |-> "", finish_reason |-> ""]

Chunk(id, now, content) ==
  [kind |-> "sse", lines |-> <<>>, id |-> id, object |-> "chat.completion.chunk",
   created |-> now, carrier |-> "delta", role |-> ROLES_ASSISTANT,
   content |-> content, finish_reason |-> "null"]

EndChunk(id, now) ==
  [kind |-> "sse", lines |-> <<>>, id |-> id, object |-> "chat.completion.chunk",
   created |-> now, carrier |-> "delta", role |-> "absent",
   content |-> "absent", finish_reason |-> "stop"]

Completion(id, now, content) ==
  [kind |-> "json", lines |-> <<>>, id |-> id, object |-> "chat.completion",
   created |-> now, carrier |-> "message", role |-> ROLES_ASSISTANT,
   content |-> content, finish_reason |-> "stop"]

StreamHeaders ==
  <<"HTTP/1.1 200", "Content-Type: text/event-stream",
    "Cache-Control: no-cache", "Connection: keep-alive">>

JsonHeaders == <<"HTTP/1.1 200", "Content-Type: application/json">>

\* --------------------------------------------------------------- agent.py

CR == "\r"
LF == "\n"
Chars == {"a", CR, LF}

\* The bytes of a file, or the text of a string: a sequence of characters.
Contents == SeqsUpTo(Chars, MaxContent)

\* No file at the path (no sequence of Chars).
NoFile == <<"nofile">>

\* args.file and the f"{file_path}.backup.{int(time.time())}" of this run.
FilePath == "f"
BackupPath == "f.backup.T"
Paths == {FilePath, BackupPath}

\* open(path, "r", encoding="utf-8").read(): universal newlines, every
\* "\r\n" and every lone "\r" is read as "\n".
RECURSIVE TextRead(_)
TextRead(bytes) ==
  IF bytes = <<>> THEN <<>>
  ELSE IF Head(bytes) = CR
    THEN IF Len(bytes) >= 2 /\ bytes[2] = LF
           THEN <<LF>> \o TextRead(Tail(Tail(bytes)))
           ELSE <<LF>> \o TextRead(Tail(bytes))
    ELSE <<Head(bytes)>> \o TextRead(Tail(bytes))

\* open(path, "w", encoding="utf-8").write(text): every "\n" is written as
\* os.linesep.
RECURSIVE TextWrite(_, _)
TextWrite(text, sep) ==
  IF text = <<>> THEN <<>>
  ELSE (IF Head(text) = LF THEN sep ELSE <<Head(text)>>) \o TextWrite(Tail(text), sep)

LineSeps == {<<LF>>, <<CR, LF>>}

\* --timeout values (60 is the default)
Timeouts == {1, 60}

TimedOutMsg(t) ==
  IF t = 1 THEN "Command timed out after 1 seconds"
           ELSE "Command timed out after 60 seconds"

\* The read branch calling write_file (a branch copied and not adapted).
MethodOfCopied(c) ==
  CASE c = "browse" -> "browse"
    [] c = "search" -> "search"
    [] c = "run" -> "run_command"
    [] c = "read" -> "write_file"
    [] c = "write" -> "write_file"

\* The method main() calls for a subcommand (lines 360-394).
MethodOf(c) ==
  CASE c = "browse" -> "browse"
    [] c = "search" -> "search"
    [] c = "run" -> "run_command"
    [] c = "read" -> "read_file"
    [] c = "write" -> "write_file"

\* Exceptions the external calls raise; all are subclasses of Exception.
ExceptionKinds ==
  {"OSError", "UnicodeDecodeError", "TimeoutExpired", "IndexError",
   "RequestException", "SelectorSyntaxError"}

\* `except Exception` with only OSError named.
ExceptOSError(kind) == kind = "OSError"

\* `except Exception as e` (lines 166, 185, 221, 116).
ExceptException(kind) == kind \in ExceptionKinds

\* `except requests.exceptions.RequestException as e` (line 74).
ExceptRequestException(kind) == kind = "RequestException"

Pending == [pending |-> TRUE]

ArgSets ==
  [command : {"browse", "search", "none"}, content : {<<>>}, backup : {TRUE},
   timeout : {60}, selector : BOOLEAN]
  \cup
  [command : {"run"}, content : {<<>>}, backup : {TRUE},
   timeout : Timeouts, selector : {FALSE}]
  \cup
  [command : {"read"}, content : {<<>>}, backup : {TRUE},
   timeout : {60}, selector : {FALSE}]
  \cup
  [command : {"write"}, content : Contents, backup : BOOLEAN,
   timeout : {60}, selector : {FALSE}]

AInit ==
  /\ apc = "start"
  /\ args \in ArgSets
  /\ linesep \in LineSeps
  /\ fs \in [Paths -> Contents \cup {NoFile}]
  /\ (args.command \notin {"read", "write"} => fs = [p \in Paths |-> NoFile])
  /\ (fs[BackupPath] # NoFile => fs[BackupPath] = <<"a">>)
  /\ fs0 = fs
  /\ result = Pending
  /\ methodCalls = <<>>
  /\ osCalls = <<>>
  /\ printed = <<>>
  /\ proc = "none"
  /\ failed = FALSE
  /\ raised = FALSE

AIdle ==
  /\ apc = "idle"
  /\ args = [command |-> "none", content |-> <<>>, backup |-> TRUE,
             timeout |-> 60, selector |-> FALSE]
  /\ linesep = <<LF>>
  /\ fs = [p \in Paths |-> NoFile]
  /\ fs0 = fs
  /\ result = Pending
  /\ methodCalls = <<>>
  /\ osCalls = <<>>
  /\ printed = <<>>
  /\ proc = "none"
  /\ failed = FALSE
  /\ raised = FALSE

\* Lines 354-403: parse, construct the Agent, call the subcommand's method;
\* without a subcommand print the help.
MainDispatch ==
  /\ UNCHANGED <<hvars, evars>>
  /\ apc = "start"
  /\ IF args.command = "none"
       THEN /\ printed' = Append(printed, "help")
            /\ methodCalls' = methodCalls
            /\ apc' = "done"
       ELSE /\ printed' = printed
            /\ methodCalls' = Append(methodCalls, MethodOf(args.command))
            /\ apc' = MethodOf(args.command)
  /\ UNCHANGED <<args, linesep, fs, fs0, result, osCalls, proc, failed, raised>>

\* Lines 51-76: Agent.browse. Only a RequestException is handled; the error
\* soup.select raises for a malformed selector leaves the method.
Browse ==
  /\ UNCHANGED <<hvars, evars>>
  /\ apc = "browse"
  /\ \E outcome \in {"ok", "RequestException", "SelectorSyntaxError"} :
       \/ /\ outcome = "ok"
          /\ osCalls' = osCalls \o <<"session.get", "raise_for_status", "BeautifulSoup">>
                          \o (IF args.selector THEN <<"soup.select">> ELSE <<>>)
          /\ result' = IF args.selector
                         THEN [status_code |-> 200, title |-> "t", selected_content |-> <<"x">>]
                         ELSE [status_code |-> 200, title |-> "t"]
          /\ apc' = "print"
          /\ UNCHANGED <<failed, raised>>
       \/ /\ outcome = "RequestException"
          /\ osCalls' = Append(osCalls, "session.get")
          /\ failed' = TRUE
          /\ IF ExceptRequestException(outcome)
               THEN result' = [error |-> outcome] /\ apc' = "print" /\ raised' = raised
               ELSE result' = result /\ apc' = "crashed" /\ raised' = TRUE
       \/ /\ outcome = "SelectorSyntaxError"
          /\ args.selector
          /\ osCalls' = osCalls \o <<"session.get", "raise_for_status", "BeautifulSoup",
                                     "soup.select">>
          /\ failed' = TRUE
          /\ IF ExceptRequestException(outcome)
               THEN result' = [error |-> outcome] /\ apc' = "print" /\ raised' = raised
               ELSE result' = result /\ apc' = "crashed" /\ raised' = TRUE
  /\ UNCHANGED <<args, linesep, fs, fs0, methodCalls, printed, proc>>

\* Lines 90-118: Agent.search.
Search ==
  /\ UNCHANGED <<hvars, evars>>
  /\ apc = "search"
  /\ \E outcome \in {"ok", "RequestException"} :
       \/ /\ outcome = "ok"
          /\ osCalls' = osCalls \o <<"session.get", "raise_for_status", "BeautifulSoup", "soup.select">>
          /\ result' = [results |-> <<"r">>]
          /\ apc' = "print"
          /\ UNCHANGED <<failed, raised>>
       \/ /\ outcome = "RequestException"
          /\ osCalls' = Append(osCalls, "session.get")
          /\ failed' = TRUE
          /\ IF ExceptException(outcome)
               THEN result' = [error |-> outcome] /\ apc' = "print" /\ raised' = raised
               ELSE result' = result /\ apc' = "crashed" /\ raised' = TRUE
  /\ UNCHANGED <<args, linesep, fs, fs0, methodCalls, printed, proc>>

\* Lines 132-146: split the command, start the child with subprocess.Popen.
RunPopen ==
  /\ UNCHANGED <<hvars, evars>>
  /\ apc = "run_command"
  /\ osCalls' = Append(osCalls, "subprocess.Popen")
  /\ \E outcome \in {"ok", "OSError", "IndexError"} :
       IF outcome = "ok"
         THEN /\ proc' = "running"
              /\ apc' = "communicate"
              /\ UNCHANGED <<result, failed, raised>>
         ELSE /\ proc' = proc
              /\ failed' = TRUE
              /\ IF ExceptException(outcome)
                   THEN result' = [error |-> outcome] /\ apc' = "print" /\ raised' = raised
                   ELSE result' = result /\ apc' = "crashed" /\ raised' = TRUE
  /\ UNCHANGED <<args, linesep, fs, fs0, methodCalls, printed>>

\* Lines 148-165: process.communicate(timeout=timeout). Either the child ends
\* in time and is reaped, or TimeoutExpired is raised and caught at line 163;
\* nothing there kills or waits for the child.
RunCommunicate ==
  /\ UNCHANGED <<hvars, evars>>
  /\ apc = "communicate"
  /\ osCalls' = Append(osCalls, "process.communicate")
  /\ \/ \E rc \in {0, 1} :
          /\ proc' = "reaped"
          /\ result' = [stdout |-> "out", stderr |-> "err", returncode |-> rc,
                        success |-> (rc = 0)]
          /\ apc' = "print"
          /\ UNCHANGED <<failed, raised>>
     \/ /\ proc' = proc
        /\ failed' = TRUE
        /\ IF ExceptException("TimeoutExpired")
             THEN /\ result' = [error |-> TimedOutMsg(args.timeout)]
                  /\ apc' = "print"
                  /\ raised' = raised
             ELSE result' = result /\ apc' = "crashed" /\ raised' = TRUE
  /\ UNCHANGED <<args, linesep, fs, fs0, methodCalls, printed>>

\* The child left running by a timed-out communicate ends by itself later.
ChildExits ==
  /\ UNCHANGED <<hvars, evars>>
  /\ proc = "running"
  /\ apc \in {"print", "done"}
  /\ proc' = "zombie"
  /\ UNCHANGED <<apc, args, linesep, fs, fs0, result, methodCalls, osCalls,
                 printed, failed, raised>>

\* Lines 180-187: Agent.read_file.
ReadFile ==
  /\ UNCHANGED <<hvars, evars>>
  /\ apc = "read_file"
  /\ osCalls' = Append(osCalls, "open:r")
  /\ \E outcome \in {"ok", "OSError", "UnicodeDecodeError"} :
       /\ (outcome = "ok" => fs[FilePath] # NoFile)
       /\ (outcome = "UnicodeDecodeError" => fs[FilePath] # NoFile)
       /\ IF outcome = "ok"
            THEN /\ result' = [content |-> TextRead(fs[FilePath]), success |-> TRUE]
                 /\ apc' = "print"
                 /\ UNCHANGED <<failed, raised>>
            ELSE /\ failed' = TRUE
                 /\ IF ExceptException(outcome)
                      THEN /\ result' = [error |-> outcome, success |-> FALSE]
                           /\ apc' = "print"
                           /\ raised' = raised
                      ELSE result' = result /\ apc' = "crashed" /\ raised' = TRUE
  /\ UNCHANGED <<args, linesep, fs, fs0, methodCalls, printed, proc>>

\* dict[k] = v
SetKey(d, k, v) == [x \in DOMAIN d \cup {k} |-> IF x = k THEN v ELSE d[x]]

HasKey(d, k) == k \in DOMAIN d

\* Lines 201-212: result = {"success": False}; when the file exists and a
\* backup is asked for, copy it to the backup path through two text-mode
\* files: open the source, open (create, truncate) the backup, read, write.
WriteFileBackup ==
  /\ UNCHANGED <<hvars, evars>>
  /\ apc = "write_file"
  /\ IF fs[FilePath] # NoFile /\ args.backup
       THEN \E outcome \in {"ok", "open_src", "open_dst", "decode"} :
              CASE outcome = "ok" ->
                     /\ osCalls' = osCalls \o <<"os.path.exists", "open:r", "open:w:backup">>
                     /\ fs' = [fs EXCEPT ![BackupPath] =
                                 TextWrite(TextRead(fs[FilePath]), linesep)]
                     /\ result' = [success |-> FALSE, backup_path |-> BackupPath]
                     /\ apc' = "write_target"
                     /\ UNCHANGED <<failed, raised>>
                [] outcome = "open_src" ->
                     /\ osCalls' = osCalls \o <<"os.path.exists", "open:r">>
                     /\ fs' = fs
                     /\ failed' = TRUE
                     /\ IF ExceptException("OSError")
                          THEN /\ result' = [success |-> FALSE, error |-> "OSError"]
                               /\ apc' = "print"
                               /\ raised' = raised
                          ELSE result' = result /\ apc' = "crashed" /\ raised' = TRUE
                [] outcome = "open_dst" ->
                     /\ osCalls' = osCalls \o <<"os.path.exists", "open:r", "open:w:backup">>
                     /\ fs' = fs
                     /\ failed' = TRUE
                     /\ IF ExceptException("OSError")
                          THEN /\ result' = [success |-> FALSE, error |-> "OSError"]
                               /\ apc' = "print"
                               /\ raised' = raised
                          ELSE result' = result /\ apc' = "crashed" /\ raised' = TRUE
                [] outcome = "decode" ->
                     /\ osCalls' = osCalls \o <<"os.path.exists", "open:r", "open:w:backup">>
                     /\ fs' = [fs EXCEPT ![BackupPath] = <<>>]
                     /\ failed' = TRUE
                     /\ IF ExceptException("UnicodeDecodeError")
                          THEN /\ result' = [success |-> FALSE, error |-> "UnicodeDecodeError"]
                               /\ apc' = "print"
                               /\ raised' = raised
                          ELSE result' = result /\ apc' = "crashed" /\ raised' = TRUE
       ELSE /\ osCalls' = Append(osCalls, "os.path.exists")
            /\ result' = [success |-> FALSE]
            /\ apc' = "write_target"
            /\ UNCHANGED <<fs, failed, raised>>
  /\ UNCHANGED <<args, linesep, fs0, methodCalls, printed, proc>>

\* Lines 214-224: open the target for writing (create, truncate), write the
\* new content; any exception becomes result["error"].
WriteFileTarget ==
  /\ UNCHANGED <<hvars, evars>>
  /\ apc = "write_target"
  /\ osCalls' = Append(osCalls, "open:w")
  /\ \E outcome \in {"ok", "open", "write"} :
       CASE outcome = "ok" ->
              /\ fs' = [fs EXCEPT ![FilePath] = TextWrite(args.content, linesep)]
              /\ result' = SetKey(result, "success", TRUE)
              /\ apc' = "print"
              /\ UNCHANGED <<failed, raised>>
         [] outcome = "open" ->
              /\ fs' = fs
              /\ failed' = TRUE
              /\ IF ExceptException("OSError")
                   THEN /\ result' = SetKey(result, "error", "OSError")
                        /\ apc' = "print"
                        /\ raised' = raised
                   ELSE result' = result /\ apc' = "crashed" /\ raised' = TRUE
         [] outcome = "write" ->
              /\ fs' = [fs EXCEPT ![FilePath] = <<>>]
              /\ failed' = TRUE
              /\ IF ExceptException("OSError")
                   THEN /\ result' = SetKey(result, "error", "OSError")
                        /\ apc' = "print"
                        /\ raised' = raised
                   ELSE result' = result /\ apc' = "crashed" /\ raised' = TRUE
  /\ UNCHANGED <<args, linesep, fs0, methodCalls, printed, proc>>

\* Lines 362-400: what main() prints from the returned dictionary.
PrintOut(c, r) ==
  CASE c = "browse" ->
         IF args.selector /\ HasKey(r, "selected_content") THEN <<"selected">>
         ELSE IF HasKey(r, "title") THEN <<"Title", "URL">>
         ELSE <<>>
    [] c = "search" -> <<"results">>
    [] c = "run" ->
         (IF HasKey(r, "stdout") THEN <<"STDOUT">> ELSE <<>>)
         \o (IF HasKey(r, "stderr") THEN <<"STDERR">> ELSE <<>>)
         \o <<"Return code">>
    [] c = "read" ->
         IF HasKey(r, "content") THEN <<"content">> ELSE <<"Error">>
    [] c = "write" ->
         IF r.success
           THEN <<"Successfully wrote">>
                \o (IF HasKey(r, "backup_path") THEN <<"Backup created">> ELSE <<>>)
           ELSE <<"Error">>

MainPrint ==
  /\ UNCHANGED <<hvars, evars>>
  /\ apc = "print"
  /\ printed' = printed \o PrintOut(args.command, result)
  /\ apc' = "done"
  /\ UNCHANGED <<args, linesep, fs, fs0, result, methodCalls, osCalls, proc,
                 failed, raised>>

ANext ==
  \/ MainDispatch
  \/ Browse
  \/ Search
  \/ RunPopen
  \/ RunCommunicate
  \/ ChildExits
  \/ ReadFile
  \/ WriteFileBackup
  \/ WriteFileTarget
  \/ MainPrint

\* ------------------------------------------------ agent.py, edit_code_file

\* The file of MaxLines lines; a line is named by its number in the file.
OrigLines == [i \in 1..MaxLines |-> i]

\* edit["content"].splitlines() of the edits tried: one line, or two. New
\* lines carry numbers below 0, apart from every line of the file.
NewContents == {<<-1>>, <<-2, -3>>}

\* The edits tried. A replace names lines of the file; a delete or an insert
\* may also name line 0 or a line past the end. line_end is not read for an
\* insert, content not for a delete.
Edits ==
  {[type |-> "replace", line_start |-> r[1], line_end |-> r[2], content |-> c] :
     r \in {x \in (1..MaxLines) \X (1..MaxLines) : x[1] <= x[2]},
     c \in NewContents}
  \cup
  {[type |-> "insert", line_start |-> i, line_end |-> 0, content |-> c] :
     i \in 0..(MaxLines + 1), c \in NewContents}
  \cup
  {[type |-> "delete", line_start |-> r[1], line_end |-> r[2], content |-> <<>>] :
     r \in {x \in (0..(MaxLines + 1)) \X (0..(MaxLines + 1)) : x[1] <= x[2]}}

Max(a, b) == IF a >= b THEN a ELSE b
Min(a, b) == IF a <= b THEN a ELSE b

\* A slice bound as Python reads it for a list of length n.
SliceIndex(i, n) == IF i < 0 THEN Max(i + n, 0) ELSE Min(i, n)

\* lst[a:b] = new
SliceAssign(lst, a, b, new) ==
  LET lo == SliceIndex(a, Len(lst))
      hi == Max(SliceIndex(b, Len(lst)), lo)
  IN  SubSeq(lst, 1, lo) \o new \o SubSeq(lst, hi + 1, Len(lst))

\* e put into a list sorted by descending line_start, after the elements
\* whose line_start is at least its own (a stable sort).
RECURSIVE InsertDesc(_, _)
InsertDesc(sorted, e) ==
  IF sorted = <<>> THEN <<e>>
  ELSE IF Head(sorted).line_start >= e.line_start
    THEN <<Head(sorted)>> \o InsertDesc(Tail(sorted), e)
    ELSE <<e>> \o sorted

\* e put into a list sorted by ascending line_start (reverse=True left out).
RECURSIVE InsertAsc(_, _)
InsertAsc(sorted, e) ==
  IF sorted = <<>> THEN <<e>>
  ELSE IF Head(sorted).line_start <= e.line_start
    THEN <<Head(sorted)>> \o InsertAsc(Tail(sorted), e)
    ELSE <<e>> \o sorted

RECURSIVE SortedAscending(_)
SortedAscending(es) ==
  IF es = <<>> THEN <<>>
  ELSE InsertAsc(SortedAscending(SubSeq(es, 1, Len(es) - 1)), es[Len(es)])

\* Line 252: sorted(edits, key=lambda e: e["line_start"], reverse=True).
RECURSIVE SortedEdits(_)
SortedEdits(es) ==
  IF es = <<>> THEN <<>>
  ELSE InsertDesc(SortedEdits(SubSeq(es, 1, Len(es) - 1)), es[Len(es)])

\* Lines 255-272: one edit applied to `lines`.
ApplyEdit(lst, e) ==
  LET line_start == Max(1, e.line_start) - 1
  IN  CASE e.type = "replace" ->
             SliceAssign(lst, line_start, (e.line_end - 1) + 1, e.content)
        [] e.type = "insert" ->
             SliceAssign(lst, line_start, line_start, e.content)
        [] e.type = "delete" ->
             SliceAssign(lst, line_start, (e.line_end - 1) + 1, <<>>)

RECURSIVE ApplyAll(_, _)
ApplyAll(lst, es) ==
  IF es = <<>> THEN lst ELSE ApplyAll(ApplyEdit(lst, Head(es)), Tail(es))

\* Lines 249-272 as a function of the file's lines and the edit list.
EditLines(lst, es) == ApplyAll(lst, SortedEdits(es))

\* content.splitlines() / "\n".join(lines) on a file kept as its lines and
\* a mark for a newline after the last one: the mark is not kept.
SplitLines(f) == f.lines
JoinLines(lst) == [lines |-> lst, nl |-> FALSE]

EInit ==
  /\ epc = "start"
  /\ efile \in [lines : {OrigLines}, nl : BOOLEAN]
  /\ edits \in SeqsUpTo(Edits, MaxEdits)
  /\ elines = <<>>
  /\ todo = <<>>
  /\ eresult = Pending

EIdle ==
  /\ epc = "idle"
  /\ efile = [lines |-> <<>>, nl |-> FALSE]
  /\ edits = <<>>
  /\ elines = <<>>
  /\ todo = <<>>
  /\ eresult = Pending

\* Lines 244-252: read_file, splitlines, sort the edits.
EditRead ==
  /\ UNCHANGED <<hvars, avars>>
  /\ epc = "start"
  /\ \E outcome \in {"ok", "OSError"} :
       IF outcome = "ok"
         THEN /\ elines' = SplitLines(efile)
              /\ todo' = SortedEdits(edits)
              /\ epc' = "loop"
              /\ eresult' = eresult
         ELSE /\ eresult' = [error |-> outcome, success |-> FALSE]
              /\ epc' = "done"
              /\ UNCHANGED <<elines, todo>>
  /\ UNCHANGED <<efile, edits>>

\* Lines 254-272: one turn of the loop.
EditStep ==
  /\ UNCHANGED <<hvars, avars>>
  /\ epc = "loop"
  /\ todo # <<>>
  /\ elines' = ApplyEdit(elines, Head(todo))
  /\ todo' = Tail(todo)
  /\ UNCHANGED <<epc, efile, edits, eresult>>

\* Lines 275-276: join the lines and write them back with write_file.
EditWrite ==
  /\ UNCHANGED <<hvars, avars>>
  /\ epc = "loop"
  /\ todo = <<>>
  /\ \E outcome \in {"ok", "OSError"} :
       IF outcome = "ok"
         THEN /\ efile' = JoinLines(elines)
              /\ eresult' = [success |-> TRUE, backup_path |-> BackupPath]
         ELSE /\ efile' = efile
              /\ eresult' = [success |-> FALSE, error |-> outcome]
  /\ epc' = "done"
  /\ UNCHANGED <<edits, elines, todo>>

ENext ==
  \/ EditRead
  \/ EditStep
  \/ EditWrite

HInit ==
  /\ hpc = "start"
  /\ post_data \in Payloads \cup {InvalidBody}
  /\ bodyRead = FALSE
  /\ messages = <<>>
  /\ llmCalls = <<>>
  /\ response_data = NoResponse
  /\ completion_id = -1
  /\ headers_buffer = <<>>
  /\ wire = <<>>
  /\ close_connection = FALSE
  /\ clock = 0

HIdle ==
  /\ hpc = "idle"
  /\ post_data = InvalidBody
  /\ bodyRead = FALSE
  /\ messages = <<>>
  /\ llmCalls = <<>>
  /\ response_data = NoResponse
  /\ completion_id = -1
  /\ headers_buffer = <<>>
  /\ wire = <<>>
  /\ close_connection = FALSE
  /\ clock = 0

\* time passes between any two statements of the handler
Tick ==
  /\ UNCHANGED <<avars, evars>>
  /\ hpc \in {"start", "parsed", "called", "returned", "headers", "chunk1"}
  /\ clock < MaxClock
  /\ clock' = clock + 1
  /\ UNCHANGED <<hpc, post_data, bodyRead, messages, llmCalls, response_data,
                 completion_id, headers_buffer, wire, close_connection>>

\* Lines 57-63: read and parse the body, build `messages`, assert.
DoPostRead ==
  /\ UNCHANGED <<avars, evars>>
  /\ hpc = "start"
  /\ bodyRead' = TRUE
  /\ IF RequestAccepted(post_data)
       THEN /\ messages' = WithSystem(post_data)
            /\ hpc' = "parsed"
       ELSE /\ messages' = IF post_data.valid /\ post_data.has_messages
                             THEN WithSystem(post_data) ELSE <<>>
            /\ hpc' = "raised"
  /\ UNCHANGED <<post_data, llmCalls, response_data, completion_id,
                 headers_buffer, wire, close_connection, clock>>

\* The retried call a retry loop around line 64 would make.
DoPostCallTwice ==
  /\ UNCHANGED <<avars, evars>>
  /\ hpc = "parsed"
  /\ llmCalls' = Append(Append(llmCalls, messages), messages)
  /\ hpc' = "called"
  /\ UNCHANGED <<post_data, bodyRead, messages, response_data, completion_id,
                 headers_buffer, wire, close_connection, clock>>

\* Line 64 -> line 43: llm.completion(messages) calls the provider.
DoPostCall ==
  /\ UNCHANGED <<avars, evars>>
  /\ hpc = "parsed"
  /\ llmCalls' = Append(llmCalls, messages)
  /\ hpc' = "called"
  /\ UNCHANGED <<post_data, bodyRead, messages, response_data, completion_id,
                 headers_buffer, wire, close_connection, clock>>

\* Lines 43-45 return the content; line 65 names the completion.
CompletionReturn ==
  /\ UNCHANGED <<avars, evars>>
  /\ hpc = "called"
  /\ \E r \in Responses : response_data' = r
  /\ completion_id' = clock
  /\ hpc' = "returned"
  /\ UNCHANGED <<post_data, bodyRead, messages, llmCalls, headers_buffer, wire,
                 close_connection, clock>>

\* The provider call raises; do_POST has no handler, the exception leaves it.
CompletionRaise ==
  /\ UNCHANGED <<avars, evars>>
  /\ hpc = "called"
  /\ hpc' = "raised"
  /\ UNCHANGED <<post_data, bodyRead, messages, llmCalls, response_data,
                 completion_id, headers_buffer, wire, close_connection, clock>>

\* Lines 69-73 (stream) or 95-97: send_response buffers the status line,
\* send_header buffers a header, end_headers writes the buffer out.
DoPostHeaders ==
  /\ UNCHANGED <<avars, evars>>
  /\ hpc = "returned"
  /\ LET buf == headers_buffer \o
                (IF Truthy(post_data.stream) THEN StreamHeaders ELSE JsonHeaders)
     IN  wire' = Append(wire, HeaderBlock(buf))
  /\ headers_buffer' = <<>>
  /\ close_connection' = IF Truthy(post_data.stream) THEN FALSE ELSE close_connection
  /\ hpc' = "headers"
  /\ UNCHANGED <<post_data, bodyRead, messages, llmCalls, response_data,
                 completion_id, clock>>

\* Lines 75-83 with the id taken anew from the clock.
DoPostChunkFreshId ==
  /\ UNCHANGED <<avars, evars>>
  /\ hpc = "headers"
  /\ Truthy(post_data.stream)
  /\ wire' = Append(wire, Chunk(clock, clock, response_data))
  /\ hpc' = "chunk1"
  /\ UNCHANGED <<post_data, bodyRead, messages, llmCalls, response_data,
                 completion_id, headers_buffer, close_connection, clock>>

\* Lines 75-83: the first event.
DoPostChunk ==
  /\ UNCHANGED <<avars, evars>>
  /\ hpc = "headers"
  /\ Truthy(post_data.stream)
  /\ wire' = Append(wire, Chunk(completion_id, clock, response_data))
  /\ hpc' = "chunk1"
  /\ UNCHANGED <<post_data, bodyRead, messages, llmCalls, response_data,
                 completion_id, headers_buffer, close_connection, clock>>

\* Lines 85-93: the closing event.
DoPostEndChunk ==
  /\ UNCHANGED <<avars, evars>>
  /\ hpc = "chunk1"
  /\ wire' = Append(wire, EndChunk(completion_id, clock))
  /\ hpc' = "body"
  /\ UNCHANGED <<post_data, bodyRead, messages, llmCalls, response_data,
                 completion_id, headers_buffer, close_connection, clock>>

\* Lines 98-104: the single JSON object.
DoPostJson ==
  /\ UNCHANGED <<avars, evars>>
  /\ hpc = "headers"
  /\ ~Truthy(post_data.stream)
  /\ wire' = Append(wire, Completion(completion_id, clock, response_data))
  /\ hpc' = "body"
  /\ UNCHANGED <<post_data, bodyRead, messages, llmCalls, response_data,
                 completion_id, headers_buffer, close_connection, clock>>

\* Line 106: send_header after end_headers only buffers the header and marks
\* the connection for closing; nothing flushes the buffer afterwards.
DoPostConnClose ==
  /\ UNCHANGED <<avars, evars>>
  /\ hpc = "body"
  /\ headers_buffer' = Append(headers_buffer, "Connection: close")
  /\ close_connection' = TRUE
  /\ hpc' = "done"
  /\ UNCHANGED <<post_data, bodyRead, messages, llmCalls, response_data,
                 completion_id, wire, clock>>

HNext ==
  \/ Tick
  \/ DoPostRead
  \/ DoPostCall
  \/ CompletionReturn
  \/ CompletionRaise
  \/ DoPostHeaders
  \/ DoPostChunk
  \/ DoPostEndChunk
  \/ DoPostJson
  \/ DoPostConnClose

vars == <<hvars, avars, evars>>

PostInit == HInit /\ AIdle /\ EIdle

SpecPost == PostInit /\ [][HNext]_vars

AgentInit == AInit /\ HIdle /\ EIdle


SpecAgent == AgentInit /\ [][ANext]_vars

EditInit == EInit /\ HIdle /\ AIdle

SpecEdit == EditInit /\ [][ENext]_vars

\* ------------------------------------------------------ claims on do_POST

\* The body items of the response written so far (all but header blocks).
Bodies == SelectSeq(wire, LAMBDA w : w.kind # "headers")

\* C1: do_POST is a single path: the body is read before llm.completion is
\* called, llm.completion is called at most once (never retried), nothing is
\* written to the client before it has returned, and an answered request got
\* one header block followed by exactly one of the two shapes: the two
\* 'chat.completion.chunk' events when 'stream' is truthy, the single
\* 'chat.completion' object otherwise.
C1_SinglePath ==
  /\ Len(llmCalls) <= 1
  /\ (llmCalls # <<>> => bodyRead)
  /\ (wire # <<>> => Len(llmCalls) = 1 /\ response_data # NoResponse)
  /\ (hpc = "done" =>
        /\ Len(llmCalls) = 1
        /\ wire[1].kind = "headers"
        /\ Len(wire) = 1 + Len(Bodies)
        /\ IF Truthy(post_data.stream)
             THEN /\ Len(Bodies) = 2
                  /\ \A i \in 1..2 : Bodies[i].object = "chat.completion.chunk"
             ELSE /\ Len(Bodies) = 1
                  /\ Bodies[1].object = "chat.completion")

\* An answered, non-streaming request.
C1_Witness ==
  /\ hpc = "done"
  /\ ~Truthy(post_data.stream)
  /\ Len(llmCalls) = 1
  /\ Len(wire) = 2

\* C2 as stated: the list passed to llm.completion equals the payload's
\* 'messages' list.
C2_Verbatim ==
  \A i \in 1..Len(llmCalls) : llmCalls[i] = post_data.messages

\* C2 amended: the list passed to llm.completion is the payload's 'messages'
\* list, preceded by one {"role": "system", "content": <system>} message when
\* the payload carries a truthy 'system' field, and unchanged otherwise.
C2_SystemPrepended ==
  \A i \in 1..Len(llmCalls) :
    llmCalls[i] =
      IF post_data.system \in {"absent", ""}
        THEN post_data.messages
        ELSE <<[role |-> "system", content |-> post_data.system]>>
               \o post_data.messages

\* A call made for a payload with a 'system' field and a non-empty list.
C2_Witness ==
  /\ Len(llmCalls) = 1
  /\ post_data.system = "S"
  /\ Len(post_data.messages) = MaxMsgs
  /\ Len(llmCalls[1]) = MaxMsgs + 1

\* C8: with streaming requested the bytes written are, in this order and with
\* nothing after them: the header block (status 200, Content-Type
\* text/event-stream), a chunk event whose delta has role 'assistant' and the
\* whole provider response with finish_reason null, a chunk event with an
\* empty delta and finish_reason 'stop'; both events carry the same id.
C8_StreamEvents ==
  Truthy(post_data.stream) =>
    /\ Len(wire) <= 3
    /\ (Len(wire) >= 1 =>
          /\ wire[1].kind = "headers"
          /\ wire[1].lines[1] = "HTTP/1.1 200"
          /\ wire[1].lines[2] = "Content-Type: text/event-stream")
    /\ (Len(wire) >= 2 =>
          /\ wire[2].kind = "sse"
          /\ wire[2].object = "chat.completion.chunk"
          /\ wire[2].carrier = "delta"
          /\ wire[2].role = "assistant"
          /\ wire[2].content = response_data
          /\ wire[2].finish_reason = "null")
    /\ (Len(wire) >= 3 =>
          /\ wire[3].kind = "sse"
          /\ wire[3].object = "chat.completion.chunk"
          /\ wire[3].carrier = "delta"
          /\ wire[3].role = "absent"
          /\ wire[3].content = "absent"
          /\ wire[3].finish_reason = "stop"
          /\ wire[3].id = wire[2].id)
    /\ (hpc = "done" => Len(wire) = 3)

\* A finished streaming response during which the clock moved after the
\* completion returned.
C8_Witness ==
  /\ hpc = "done"
  /\ Truthy(post_data.stream)
  /\ Len(wire) = 3
  /\ wire[3].created > completion_id

\* ------------------------------------------------------- claims on main()

Count(seq, x) == Cardinality({i \in 1..Len(seq) : seq[i] = x})

Finished == apc \in {"print", "done"}

C4_BackupHoldsOldContent ==
  (Finished /\ args.command = "write" /\ linesep = <<LF>>) =>
    /\ (result.success /\ HasKey(result, "backup_path") =>
          /\ fs[BackupPath] = fs0[FilePath]
          /\ fs[FilePath] = args.content)
    /\ (~args.backup \/ fs0[FilePath] = NoFile =>
          /\ fs[BackupPath] = fs0[BackupPath]
          /\ ~HasKey(result, "backup_path"))

\* C5: when run_command has returned the timed-out error, the child it
\* started is not running any more: it has ended and has been reaped.
C5_TimeoutEndsChild ==
  (/\ Finished
   /\ args.command = "run"
   /\ HasKey(result, "error")
   /\ result.error = TimedOutMsg(args.timeout)) => proc = "reaped"

\* C6: read_file, write_file and run_command never raise and never repeat an
\* external operation; a failure is returned as a dictionary with 'error'
\* (and success False for read_file and write_file); a run_command that
\* completes returns stdout, stderr, returncode and success, with success
\* true exactly when returncode is 0.
C6_ErrorsAsValues ==
  args.command \in {"run", "read", "write"} =>
    /\ ~raised
    /\ apc # "crashed"
    /\ \A c \in {"open:r", "open:w", "open:w:backup", "subprocess.Popen",
                 "process.communicate"} : Count(osCalls, c) <= 1
    /\ (Finished =>
          /\ (failed <=> HasKey(result, "error"))
          /\ (failed /\ args.command \in {"read", "write"} =>
                result.success = FALSE)
          /\ (~failed /\ args.command = "run" =>
                /\ {"stdout", "stderr", "returncode", "success"} \subseteq DOMAIN result
                /\ (result.success <=> result.returncode = 0)))

\* A read_file whose file could not be decoded, reported as a value.
C6_Witness ==
  /\ apc = "done"
  /\ args.command = "read"
  /\ failed
  /\ result = [error |-> "UnicodeDecodeError", success |-> FALSE]
  /\ printed = <<"Error">>

\* ---------------------------------------------- claims on edit_code_file

\* What the edits say about the original file, each read with the line
\* numbers of the original: line i is dropped when a replace or delete
\* covers it, and the content of the replaces and inserts that start at
\* line i stands in front of it.
Covered(i, es) ==
  \E k \in 1..Len(es) :
    /\ es[k].type \in {"replace", "delete"}
    /\ es[k].line_start <= i
    /\ i <= es[k].line_end

RECURSIVE ContentAt(_, _)
ContentAt(i, es) ==
  IF es = <<>> THEN <<>>
  ELSE (IF Head(es).line_start = i /\ Head(es).type \in {"replace", "insert"}
          THEN Head(es).content ELSE <<>>) \o ContentAt(i, Tail(es))

RECURSIVE OnOriginalFrom(_, _, _)
OnOriginalFrom(i, orig, es) ==
  IF i > Len(orig) + 1 THEN <<>>
  ELSE ContentAt(i, es)
       \o (IF i <= Len(orig) /\ ~Covered(i, es) THEN <<orig[i]>> ELSE <<>>)
       \o OnOriginalFrom(i + 1, orig, es)

OnOriginal(orig, es) == OnOriginalFrom(1, orig, es)

\* The edit list in another listing order.
Reordered(es, p) == [k \in 1..Len(es) |-> es[p[k]]]

\* An edit that names lines of a file of n lines.
NamesLines(e, n) ==
  IF e.type = "insert"
    THEN 1 <= e.line_start /\ e.line_start <= n + 1
    ELSE 1 <= e.line_start /\ e.line_start <= e.line_end /\ e.line_end <= n

\* No two edits start at the same line and no replace or delete reaches the
\* line another edit starts at.
Apart(es) ==
  \A j, k \in 1..Len(es) :
    j # k =>
      /\ es[j].line_start # es[k].line_start
      /\ (es[j].line_start < es[k].line_start /\ es[j].type # "insert" =>
            es[j].line_end < es[k].line_start)

LoopDone == epc \in {"loop", "done"} /\ todo = <<>> /\ ~HasKey(eresult, "error")

====
